---- MODULE Spec2Model ----
(***************************************************************************)
(* Model of the position book (app/strategies/base.py) and of the trading  *)
(* scheduler that drives it (app/scheduler.py).                            *)
(*                                                                         *)
(* SpecBook: direct calls of BaseStrategy.update_position on the books of  *)
(* the two strategies.                                                     *)
(* Spec: the execute_trading coroutine, one action per stretch of code     *)
(* between two awaits (and a few finer steps that no other coroutine can   *)
(* interleave with), together with the jobs that set the flags it reads.   *)
(* The broker and the indicator values are inputs: every answer of a       *)
(* broker call and every outcome of a strategy's analysis is drawn by \E.  *)
(*                                                                         *)
(* SpecStrategy: analyze and generate_signals of one strategy on a daily   *)
(* chart (app/strategies), the indicators of TechnicalAnalyzer             *)
(* (app/analyzers/technical_analyzer.py) computed in fixed point.          *)
(* SpecSignals: generate_signals of the two strategies on indicator values *)
(* drawn from bounded sets.                                                *)
(*                                                                         *)
(* SpecAccount: execute_trading interleaved with manage_positions, the     *)
(* stop-loss and take-profit job, on one broker account.                   *)
(* SpecCycle: the jobs of Spec with target lists around the limit of 20    *)
(* stocks per cycle.                                                       *)
(*                                                                         *)
(* avg_price is a Python float; the model keeps it as an exact fraction    *)
(* [n, d] in lowest terms, so equalities on averages are equalities of     *)
(* rationals (float rounding is not modelled).                             *)
(***************************************************************************)
EXTENDS Integers, Sequences, FiniteSets, TLC

\* ------------------------------------------------------------------ bounds
MaxQty == 2          \* largest quantity of one direct update_position call
MaxCalls == 3        \* direct update_position calls explored per behaviour
MaxFills == 2        \* orders the broker confirms per behaviour

\* --------------------------------------------------------------- constants
MAX_POSITION_SIZE == 1000000
MinConfidence == 30
FullSellConfidence == 70
TargetLimit == 20

Strategies == {"squeeze_momentum", "macd"}
StrategyOrder == <<"squeeze_momentum", "macd">>
Stocks == {"A", "B"}
Actions == {"BUY", "SELL", "HOLD"}     \* "HOLD": any value that is neither BUY nor SELL
Prices == {10000, 25000, 60000}        \* fill prices of direct update_position calls
Quotes == {25000, 60000}               \* stck_prpr answers: BuyQuantity is 2 and 0
Confidences == {29, 30, 71}            \* below the filter, at it, above the full-sell level

VARIABLES
    positions,        \* strategy -> (stock_code -> [quantity, avg_price])
    fills,            \* history: per strategy and stock, the BUY fills since the key was absent
    last_call,        \* history: the last direct update_position call and the book before it
    calls,            \* history: number of direct update_position calls
    is_trading_time,  \* TradingScheduler.is_trading_time
    target_stocks,    \* TradingScheduler.target_stocks
    holdings,         \* the broker account: stock_code -> hldg_qty
    pc,               \* where the execute_trading coroutine stands
    cycle,            \* execute_trading: the slice target_stocks[:20] being iterated
    idx,              \* execute_trading: index of the current stock_code in cycle
    strategy_i,       \* analyze_and_trade: index of the strategy in self.strategies
    all_signals,      \* analyze_and_trade: the list all_signals
    sig_i,            \* process_signals: index of the current signal
    order,            \* execute_*_order: the locals price, quantity / sell_qty
    consumed,         \* history: signals the process_signals loop took, this pass
    attempts,         \* history: signals an order was submitted for, this pass
    discarded,        \* history: signals dropped by the confidence filter, this pass
    last_result,      \* history: outcome of the last buy_order / sell_order call
    analysed,         \* history: stocks analyze_and_trade was called for, this cycle
    failed,           \* history: stocks for which a step failed, this cycle
    filled,           \* history: number of orders the broker confirmed
    df,               \* the daily chart handed to a strategy, oldest row first
    analysis,         \* what strategy.analyze returned
    returned,         \* what strategy.generate_signals returned, or that a call raised
    manage_pc,        \* where the manage_positions coroutine stands
    manage_holdings,  \* manage_positions: the holdings get_balance returned
    manage_i,         \* manage_positions: index of the current holding
    manage_qty        \* execute_stop_loss / execute_take_profit: quantity of the order

bookVars == <<positions, fills, last_call, calls>>
histVars == <<fills, last_call, calls>>
schedVars == <<is_trading_time, target_stocks, holdings, pc, cycle, idx, strategy_i,
               all_signals, sig_i, order, consumed, attempts, discarded,
               last_result, analysed, failed, filled,
               manage_pc, manage_holdings, manage_i, manage_qty>>
vars == <<positions, fills, last_call, calls, is_trading_time, target_stocks, holdings,
          pc, cycle, idx, strategy_i, all_signals, sig_i, order, consumed,
          attempts, discarded, last_result, analysed, failed, filled,
          df, analysis, returned, manage_pc, manage_holdings, manage_i, manage_qty>>
stratVars == <<df, analysis, returned>>
mgmtVars == <<manage_pc, manage_holdings, manage_i, manage_qty>>

\* ------------------------------------------------------------- fractions
RECURSIVE GCD(_, _)
GCD(a, b) == IF b = 0 THEN a ELSE GCD(b, a % b)

Frac(n, d) == IF n = 0 THEN [n |-> 0, d |-> 1]
              ELSE [n |-> n \div GCD(n, d), d |-> d \div GCD(n, d)]

\* ------------------------------------------------- BaseStrategy.positions
EmptyBook == [c \in {} |-> [quantity |-> 0, avg_price |-> Frac(0, 1)]]

Put(book, stock_code, pos) ==
    [c \in (DOMAIN book) \cup {stock_code} |-> IF c = stock_code THEN pos ELSE book[c]]

Del(book, stock_code) ==
    [c \in (DOMAIN book) \ {stock_code} |-> book[c]]

\* WithEntry that inserts a fresh entry whether or not the key is present:
\* what the book held for the key is lost
WithEntryFresh(book, stock_code) ==
    Put(book, stock_code, [quantity |-> 0, avg_price |-> Frac(0, 1)])

\* lines 29-30: a missing key is first inserted as {'quantity': 0, 'avg_price': 0}
WithEntry(book, stock_code) ==
    IF stock_code \in DOMAIN book THEN book
    ELSE Put(book, stock_code, [quantity |-> 0, avg_price |-> Frac(0, 1)])

\* ApplyBuy with the old average not weighted by the old quantity
ApplyBuyUnweighted(book, stock_code, quantity, price) ==
    LET b0 == WithEntry(book, stock_code)
        current_qty == b0[stock_code].quantity
        current_avg == b0[stock_code].avg_price
        new_qty == current_qty + quantity
    IN  IF new_qty = 0
        THEN b0
        ELSE Put(b0, stock_code,
                 [quantity |-> new_qty,
                  avg_price |-> Frac(current_avg.n + quantity * price * current_avg.d,
                                     current_avg.d * new_qty)])

\* lines 32-39
ApplyBuy(book, stock_code, quantity, price) ==
    LET b0 == WithEntry(book, stock_code)
        current_qty == b0[stock_code].quantity
        current_avg == b0[stock_code].avg_price
        new_qty == current_qty + quantity
    IN  IF new_qty = 0
        THEN b0      \* ZeroDivisionError at line 37: the inserted entry stays
        ELSE Put(b0, stock_code,
                 [quantity |-> new_qty,
                  avg_price |-> Frac(current_qty * current_avg.n + quantity * price * current_avg.d,
                                     current_avg.d * new_qty)])

\* ApplySell that removes the key only once the quantity is negative
ApplySellKeepZero(book, stock_code, quantity) ==
    LET b0 == WithEntry(book, stock_code)
        left == b0[stock_code].quantity - quantity
    IN  IF left < 0
        THEN Del(b0, stock_code)
        ELSE Put(b0, stock_code, [b0[stock_code] EXCEPT !.quantity = left])

\* lines 41-44
ApplySell(book, stock_code, quantity) ==
    LET b0 == WithEntry(book, stock_code)
        left == b0[stock_code].quantity - quantity
    IN  IF left <= 0
        THEN Del(b0, stock_code)
        ELSE Put(b0, stock_code, [b0[stock_code] EXCEPT !.quantity = left])

HeldQty(book, stock_code) ==
    IF stock_code \in DOMAIN book THEN book[stock_code].quantity ELSE 0

\* BaseStrategy.update_position, lines 27-44
update_position(book, stock_code, action, quantity, price) ==
    CASE action = "BUY" -> ApplyBuy(book, stock_code, quantity, price)
      [] action = "SELL" -> ApplySell(book, stock_code, quantity)
      [] OTHER -> WithEntry(book, stock_code)

\* history of the fills applied to one key
NoFills == [qty |-> 0, cost |-> 0, pure |-> TRUE]

RecordFill(f, book_after, stock_code, action, quantity, price) ==
    IF stock_code \notin DOMAIN book_after THEN NoFills
    ELSE IF action = "BUY"
         THEN [f EXCEPT !.qty = @ + quantity, !.cost = @ + quantity * price]
         ELSE [f EXCEPT !.pure = FALSE]

NoCall == [strategy |-> "", stock_code |-> "", action |-> "", quantity |-> 0,
           price |-> 0, before |-> EmptyBook]

InitBook ==
    /\ positions = [s \in Strategies |-> EmptyBook]
    /\ fills = [s \in Strategies |-> [c \in Stocks |-> NoFills]]
    /\ last_call = NoCall
    /\ calls = 0

\* one direct call strategy.update_position(stock_code, action, quantity, price)
CallUpdatePosition(s, stock_code, action, quantity, price) ==
    LET after == update_position(positions[s], stock_code, action, quantity, price)
    IN  /\ calls < MaxCalls
        /\ positions' = [positions EXCEPT ![s] = after]
        /\ fills' = [fills EXCEPT ![s][stock_code] =
                        RecordFill(@, after, stock_code, action, quantity, price)]
        /\ last_call' = [strategy |-> s, stock_code |-> stock_code, action |-> action,
                         quantity |-> quantity, price |-> price, before |-> positions[s]]
        /\ calls' = calls + 1
        /\ UNCHANGED <<schedVars, stratVars>>

NextBook ==
    \E s \in Strategies, c \in Stocks, a \in Actions, q \in 1..MaxQty, p \in Prices :
        CallUpdatePosition(s, c, a, q, p)

\* ------------------------------------------------------- TradingScheduler
MaxTargets == 2      \* longest target_stocks list analyze_themes produces

Min(a, b) == IF a < b THEN a ELSE b

\* Take without the limit: the whole list
TakeAll(seq, n) == seq

Take(seq, n) == SubSeq(seq, 1, Min(n, Len(seq)))

\* every strategy is constructed active and nothing clears the flag
is_active(s) == TRUE

\* the lists analyze_themes can leave in target_stocks
TargetLists == UNION {[1..n -> Stocks] : n \in 0..MaxTargets}

\* what a strategy's indicator values decide: the BUY condition, the
\* indicator part of the SELL condition, and the confidence of the signal
Indicators == [buy : BOOLEAN, sell : BOOLEAN, confidence : Confidences]

\* the if / elif of generate_signals: BUY, else SELL when the strategy holds
\* the stock in its own positions (the signal's price field is never used
\* by the scheduler beyond being read, and is left out)
GenerateSignals(s, stock_code, ind) ==
    IF ind.buy
    THEN <<[stock_code |-> stock_code, action |-> "BUY", confidence |-> ind.confidence]>>
    ELSE IF ind.sell /\ stock_code \in DOMAIN positions[s]
         THEN <<[stock_code |-> stock_code, action |-> "SELL", confidence |-> ind.confidence]>>
         ELSE <<>>

\* signal['strategy'] = strategy_name
Tag(signals, strategy_name) ==
    [i \in 1..Len(signals) |->
        [stock_code |-> signals[i].stock_code, action |-> signals[i].action,
         confidence |-> signals[i].confidence, strategy |-> strategy_name]]

\* list.sort(key=confidence, reverse=True): stable, descending
InsertSorted(sorted, x) ==
    LET k == Cardinality({i \in 1..Len(sorted) : sorted[i].confidence >= x.confidence})
    IN  SubSeq(sorted, 1, k) \o <<x>> \o SubSeq(sorted, k + 1, Len(sorted))

RECURSIVE SortByConfidence(_)
SortByConfidence(seq) ==
    IF seq = <<>> THEN <<>>
    ELSE InsertSorted(SortByConfidence(SubSeq(seq, 1, Len(seq) - 1)), seq[Len(seq)])

\* the confidence filter of process_signals with the threshold off by one
BelowThresholdInclusive(confidence) == confidence <= MinConfidence

\* process_signals, line 186
BelowThreshold(confidence) == confidence < MinConfidence

\* execute_buy_order: int(settings.MAX_POSITION_SIZE * 0.05 / price)
BuyQuantity(price) == ((MAX_POSITION_SIZE * 5) \div 100) \div price

\* execute_sell_order: all of the holding above confidence 70, else half
SellQuantity(holding_qty, confidence) ==
    IF confidence > FullSellConfidence THEN holding_qty ELSE holding_qty \div 2

\* an exception of analyze_and_trade that escapes to execute_trading's handler
AnalyzeErrorPropagates == "idle"

\* an exception inside analyze_and_trade is caught there (line 170): the
\* call returns and execute_trading goes on to asyncio.sleep
AnalyzeErrorTarget == "return"

\* the book a fill is applied to, when every fill goes to the first strategy
FillStrategyFirst(signal) == StrategyOrder[1]

\* self.strategies[signal['strategy']]
FillStrategy(signal) == signal.strategy

\* a fill that is applied whatever the broker answered
FillAppliedAlways(result) == TRUE

\* result.get('rt_cd') == '0'
FillConfirmed(result) == result = "0"

\* the points where the coroutine is suspended and other jobs can run
YieldPcs == {"idle", "get_daily_chart", "get_current_price", "buy_order",
             "get_balance", "sell_order", "sleep"}

NoOrder == [price |-> 0, quantity |-> 0]

\* the order of the holdings in the list get_balance returns
StockOrder == <<"A", "B">>

\* manage_positions is not running: it has no holdings list
NoHoldings == [c \in Stocks |-> 0]

InitSched ==
    /\ is_trading_time = FALSE
    /\ target_stocks = <<>>
    /\ holdings = [c \in Stocks |-> 0]
    /\ pc = "idle"
    /\ cycle = <<>>
    /\ idx = 0
    /\ strategy_i = 0
    /\ all_signals = <<>>
    /\ sig_i = 0
    /\ order = NoOrder
    /\ consumed = <<>>
    /\ attempts = <<>>
    /\ discarded = <<>>
    /\ last_result = ""
    /\ analysed = <<>>
    /\ failed = {}
    /\ filled = 0
    /\ manage_pc = "idle"
    /\ manage_holdings = NoHoldings
    /\ manage_i = 0
    /\ manage_qty = 0

\* no strategy has been handed a chart
NoAnalysis == [strategy |-> "none"]
NoReturn == [strategy |-> "none", stock_code |-> "", raised |-> FALSE, list |-> <<>>]

InitIdle ==
    /\ df = <<>>
    /\ analysis = NoAnalysis
    /\ returned = NoReturn

Init == InitBook /\ InitSched /\ InitIdle

SpecBook == Init /\ [][NextBook]_vars

\* prepare_trading_day: the flag is set once get_balance answered
PrepareTradingDay(ok) ==
    /\ pc \in YieldPcs
    /\ is_trading_time' = IF ok THEN TRUE ELSE is_trading_time
    /\ UNCHANGED <<positions, histVars, stratVars, mgmtVars, filled, target_stocks, holdings, pc, cycle, idx,
                   strategy_i, all_signals, sig_i, order, consumed, attempts, discarded,
                   last_result, analysed, failed>>

\* analyze_themes, lines 107-119: target_stocks is emptied, extended theme by
\* theme across awaits and at last deduplicated; the action leaves in it any
\* of the lists another coroutine can observe.  target_stocks is read only
\* at the start of execute_trading (the loop iterates over a copy), so a run
\* of the job during a cycle is represented by the same run after it
AnalyzeThemes(stocks) ==
    /\ pc = "idle"
    /\ target_stocks' = stocks
    /\ UNCHANGED <<positions, histVars, stratVars, mgmtVars, filled, is_trading_time, holdings, pc, cycle, idx,
                   strategy_i, all_signals, sig_i, order, consumed, attempts, discarded,
                   last_result, analysed, failed>>

\* end_trading_day
EndTradingDay ==
    /\ pc \in YieldPcs
    /\ is_trading_time' = FALSE
    /\ UNCHANGED <<positions, histVars, stratVars, mgmtVars, filled, target_stocks, holdings, pc, cycle, idx,
                   strategy_i, all_signals, sig_i, order, consumed, attempts, discarded,
                   last_result, analysed, failed>>

\* execute_trading up to its first await
ExecuteTrading(in_window) ==
    /\ pc = "idle"
    /\ IF ~is_trading_time \/ target_stocks = <<>> \/ ~in_window
       THEN /\ cycle' = <<>>
            /\ idx' = 0
            /\ analysed' = <<>>
            /\ pc' = "idle"
       ELSE /\ cycle' = Take(target_stocks, TargetLimit)
            /\ idx' = 1
            /\ analysed' = <<target_stocks[1]>>
            /\ pc' = "get_daily_chart"
    /\ failed' = {}
    /\ UNCHANGED <<positions, histVars, stratVars, mgmtVars, filled, is_trading_time, target_stocks, holdings, strategy_i,
                   all_signals, sig_i, order, consumed, attempts, discarded, last_result>>

\* analyze_and_trade, lines 146-155: get_daily_chart answers.  "raise" is an
\* exception of the fetch or of the DataFrame construction at line 152, which
\* land in the same handler; scheduler.py uses the name pd without importing
\* pandas, so line 152 raises NameError unless the name is bound, and "data"
\* is the pass in which it is
GetDailyChartReturn(outcome) ==
    /\ pc = "get_daily_chart"
    /\ CASE outcome = "raise" ->
              /\ pc' = AnalyzeErrorTarget
              /\ failed' = failed \cup {cycle[idx]}
              /\ UNCHANGED <<strategy_i, all_signals, consumed, attempts, discarded>>
         [] outcome = "empty" ->
              /\ pc' = "sleep"
              /\ UNCHANGED <<failed, strategy_i, all_signals, consumed, attempts, discarded>>
         [] OTHER ->
              /\ pc' = "analyze"
              /\ strategy_i' = 1
              /\ all_signals' = <<>>
              /\ consumed' = <<>>
              /\ attempts' = <<>>
              /\ discarded' = <<>>
              /\ UNCHANGED failed
    /\ UNCHANGED <<positions, histVars, stratVars, mgmtVars, filled, is_trading_time, target_stocks, holdings, cycle, idx,
                   sig_i, order, last_result, analysed>>

\* line 157: the loop over self.strategies goes on, or analyze_and_trade returns
AfterProcess ==
    IF strategy_i < Len(StrategyOrder)
    THEN pc' = "analyze" /\ strategy_i' = strategy_i + 1 /\ sig_i' = 0
    ELSE pc' = "return" /\ strategy_i' = 0 /\ sig_i' = 0

\* line 178: the loop over signals goes on, or process_signals returns
AfterSignal ==
    IF sig_i < Len(all_signals)
    THEN pc' = "signal" /\ sig_i' = sig_i + 1 /\ UNCHANGED strategy_i
    ELSE AfterProcess

\* analyze_and_trade, lines 158-168, for the strategy at strategy_i
StrategyAnalyze(ind, raises) ==
    LET s == StrategyOrder[strategy_i]
        stock_code == cycle[idx]
        signals == IF is_active(s) THEN Tag(GenerateSignals(s, stock_code, ind), s) ELSE <<>>
    IN  /\ pc = "analyze"
        /\ IF is_active(s) /\ raises
           THEN /\ pc' = AnalyzeErrorTarget
                /\ failed' = failed \cup {stock_code}
                /\ UNCHANGED <<all_signals, strategy_i, sig_i>>
           ELSE /\ all_signals' = all_signals \o signals
                /\ IF all_signals' # <<>>
                   THEN pc' = "process_signals" /\ UNCHANGED <<strategy_i, sig_i>>
                   ELSE AfterProcess
                /\ UNCHANGED failed
        /\ UNCHANGED <<positions, histVars, stratVars, mgmtVars, filled, is_trading_time, target_stocks, holdings, cycle, idx,
                       order, consumed, attempts, discarded, last_result, analysed>>

\* process_signals, line 176, and the start of its loop
ProcessSignalsStart ==
    /\ pc = "process_signals"
    /\ all_signals' = SortByConfidence(all_signals)
    /\ sig_i' = 1
    /\ pc' = "signal"
    /\ UNCHANGED <<positions, histVars, stratVars, mgmtVars, filled, is_trading_time, target_stocks, holdings, cycle, idx,
                   strategy_i, order, consumed, attempts, discarded, last_result,
                   analysed, failed>>

\* process_signals, lines 178-190: one signal is taken and filtered
TakeSignal ==
    LET signal == all_signals[sig_i]
    IN  /\ pc = "signal"
        /\ consumed' = Append(consumed, signal)
        /\ IF BelowThreshold(signal.confidence)
           THEN /\ discarded' = Append(discarded, signal)
                /\ AfterSignal
           ELSE /\ pc' = "get_current_price"
                /\ UNCHANGED <<discarded, sig_i, strategy_i>>
        /\ UNCHANGED <<positions, histVars, stratVars, mgmtVars, filled, is_trading_time, target_stocks, holdings,
                       cycle, idx, all_signals, order, attempts, last_result, analysed, failed>>

\* process_signals, lines 190-196, and execute_*_order up to its first await
GetCurrentPriceReturn(ok, current_price) ==
    LET signal == all_signals[sig_i]
        quantity == BuyQuantity(current_price)
    IN  /\ pc = "get_current_price"
        /\ IF ~ok
           THEN /\ failed' = failed \cup {signal.stock_code}
                /\ AfterSignal
                /\ UNCHANGED <<order, attempts>>
           ELSE /\ UNCHANGED failed
                /\ IF signal.action = "BUY"
                   THEN IF quantity < 1
                        THEN AfterSignal /\ UNCHANGED <<order, attempts>>
                        ELSE /\ order' = [price |-> current_price, quantity |-> quantity]
                             /\ attempts' = Append(attempts, signal)
                             /\ pc' = "buy_order"
                             /\ UNCHANGED <<sig_i, strategy_i>>
                   ELSE /\ order' = [price |-> current_price, quantity |-> 0]
                        /\ pc' = "get_balance"
                        /\ UNCHANGED <<attempts, sig_i, strategy_i>>
        /\ UNCHANGED <<positions, histVars, stratVars, mgmtVars, filled, is_trading_time, target_stocks, holdings, cycle, idx,
                       all_signals, consumed, discarded, last_result, analysed>>

\* execute_buy_order, lines 212-225: buy_order answers
BuyOrderReturn(result) ==
    LET signal == all_signals[sig_i]
        s == FillStrategy(signal)
    IN  /\ pc = "buy_order"
        /\ result = "0" => filled < MaxFills
        /\ filled' = IF result = "0" THEN filled + 1 ELSE filled
        /\ last_result' = result
        /\ positions' = IF FillConfirmed(result)
                        THEN [positions EXCEPT ![s] =
                                 update_position(@, signal.stock_code, "BUY",
                                                 order.quantity, order.price)]
                        ELSE positions
        /\ holdings' = IF result = "0"
                       THEN [holdings EXCEPT ![signal.stock_code] = @ + order.quantity]
                       ELSE holdings
        /\ failed' = IF result = "0" THEN failed ELSE failed \cup {signal.stock_code}
        /\ order' = NoOrder
        /\ AfterSignal
        /\ UNCHANGED <<histVars, stratVars, mgmtVars, is_trading_time, target_stocks, cycle, idx, all_signals,
                       consumed, attempts, discarded, analysed>>

\* execute_sell_order, lines 231-248: get_balance answers
GetBalanceReturn(ok) ==
    LET signal == all_signals[sig_i]
        holding_qty == holdings[signal.stock_code]
        sell_qty == SellQuantity(holding_qty, signal.confidence)
    IN  /\ pc = "get_balance"
        /\ IF ~ok
           THEN /\ failed' = failed \cup {signal.stock_code}
                /\ order' = NoOrder
                /\ AfterSignal
                /\ UNCHANGED attempts
           ELSE /\ UNCHANGED failed
                /\ IF holding_qty <= 0 \/ sell_qty < 1
                   THEN order' = NoOrder /\ AfterSignal /\ UNCHANGED attempts
                   ELSE /\ order' = [order EXCEPT !.quantity = sell_qty]
                        /\ attempts' = Append(attempts, signal)
                        /\ pc' = "sell_order"
                        /\ UNCHANGED <<sig_i, strategy_i>>
        /\ UNCHANGED <<positions, histVars, stratVars, mgmtVars, filled, is_trading_time, target_stocks, holdings, cycle, idx,
                       all_signals, consumed, discarded, last_result, analysed>>

\* execute_sell_order, lines 248-261: sell_order answers; the broker confirms
\* a sale of no more than the account holds
SellOrderReturn(result) ==
    LET signal == all_signals[sig_i]
        s == FillStrategy(signal)
    IN  /\ pc = "sell_order"
        /\ result = "0" => filled < MaxFills
        /\ result = "0" => order.quantity <= holdings[signal.stock_code]
        /\ filled' = IF result = "0" THEN filled + 1 ELSE filled
        /\ last_result' = result
        /\ positions' = IF FillConfirmed(result)
                        THEN [positions EXCEPT ![s] =
                                 update_position(@, signal.stock_code, "SELL",
                                                 order.quantity, order.price)]
                        ELSE positions
        /\ holdings' = IF result = "0"
                       THEN [holdings EXCEPT ![signal.stock_code] = @ - order.quantity]
                       ELSE holdings
        /\ failed' = IF result = "0" THEN failed ELSE failed \cup {signal.stock_code}
        /\ order' = NoOrder
        /\ AfterSignal
        /\ UNCHANGED <<histVars, stratVars, mgmtVars, is_trading_time, target_stocks, cycle, idx, all_signals,
                       consumed, attempts, discarded, analysed>>

\* analyze_and_trade returns: its locals are gone, and the histories of the
\* pass with them; execute_trading awaits asyncio.sleep (line 139)
AnalyzeAndTradeReturn ==
    /\ pc = "return"
    /\ pc' = "sleep"
    /\ strategy_i' = 0
    /\ sig_i' = 0
    /\ all_signals' = <<>>
    /\ consumed' = <<>>
    /\ attempts' = <<>>
    /\ discarded' = <<>>
    /\ last_result' = ""
    /\ UNCHANGED <<positions, histVars, stratVars, mgmtVars, filled, is_trading_time, target_stocks, holdings, cycle, idx,
                   order, analysed, failed>>

\* execute_trading, lines 137-139: asyncio.sleep is over, next stock or the end
SleepReturn ==
    /\ pc = "sleep"
    /\ IF idx < Len(cycle)
       THEN /\ idx' = idx + 1
            /\ analysed' = Append(analysed, cycle[idx + 1])
            /\ pc' = "get_daily_chart"
       ELSE /\ pc' = "idle"
            /\ UNCHANGED <<idx, analysed>>
    /\ UNCHANGED <<positions, histVars, stratVars, mgmtVars, filled, is_trading_time, target_stocks, holdings, cycle,
                   strategy_i, all_signals, sig_i, order, consumed, attempts,
                   discarded, last_result, failed>>

Next ==
    \/ \E ok \in BOOLEAN : PrepareTradingDay(ok)
    \/ \E stocks \in TargetLists : AnalyzeThemes(stocks)
    \/ EndTradingDay
    \/ \E in_window \in BOOLEAN : ExecuteTrading(in_window)
    \/ \E outcome \in {"data", "empty", "raise"} : GetDailyChartReturn(outcome)
    \/ \E ind \in Indicators, raises \in BOOLEAN : StrategyAnalyze(ind, raises)
    \/ ProcessSignalsStart
    \/ TakeSignal
    \/ \E ok \in BOOLEAN, price \in Quotes : GetCurrentPriceReturn(ok, price)
    \/ \E result \in {"0", "1", "raise"} : BuyOrderReturn(result)
    \/ \E ok \in BOOLEAN : GetBalanceReturn(ok)
    \/ \E result \in {"0", "1", "raise"} : SellOrderReturn(result)
    \/ AnalyzeAndTradeReturn
    \/ SleepReturn

Spec == Init /\ [][Next]_vars

\* ------------------------------------------------------- manage_positions
StopLossPercent == 5
TakeProfitPercent == 10

\* what the execute_trading coroutine reads and writes, the account apart
tradeVars == <<is_trading_time, target_stocks, pc, cycle, idx, strategy_i, all_signals,
               sig_i, order, consumed, attempts, discarded, last_result, analysed,
               failed, filled>>

\* check_stop_loss_take_profit, lines 288-296: the branch the profit rate
\* (current_price - avg_price) / avg_price * 100 selects
profit_action(current_price, avg_price) ==
    IF (current_price - avg_price) * 100 <= -StopLossPercent * avg_price THEN "stop_loss"
    ELSE IF (current_price - avg_price) * 100 >= TakeProfitPercent * avg_price
         THEN "take_profit"
         ELSE "hold"

\* execute_stop_loss sells the holding, execute_take_profit (line 318) half of it
ManageQuantity(action, holding_qty) ==
    IF action = "stop_loss" THEN holding_qty ELSE holding_qty \div 2

\* manage_positions, lines 269-270: the next holding of the list with hldg_qty > 0
NextHolding(listed, i) ==
    LET js == {j \in (i + 1)..Len(StockOrder) : listed[StockOrder[j]] > 0}
    IN  IF js = {} THEN 0 ELSE CHOOSE j \in js : \A k \in js : j <= k

\* the loop of manage_positions goes on to the next holding, or the job ends
ManageAdvance(listed, i) ==
    /\ manage_qty' = 0
    /\ IF NextHolding(listed, i) = 0
       THEN /\ manage_pc' = "idle"
            /\ manage_holdings' = NoHoldings
            /\ manage_i' = 0
       ELSE /\ manage_pc' = "get_current_price"
            /\ manage_holdings' = listed
            /\ manage_i' = NextHolding(listed, i)

\* manage_positions up to its first await
ManagePositions ==
    /\ manage_pc = "idle"
    /\ manage_pc' = "get_balance"
    /\ UNCHANGED <<bookVars, stratVars, tradeVars, holdings, manage_holdings, manage_i,
                   manage_qty>>

\* manage_positions, lines 267-271: get_balance answers with the holdings of
\* the account, or raises (line 273)
ManageGetBalanceReturn(ok) ==
    /\ manage_pc = "get_balance"
    /\ IF ok
       THEN ManageAdvance(holdings, 0)
       ELSE /\ manage_pc' = "idle"
            /\ UNCHANGED <<manage_holdings, manage_i, manage_qty>>
    /\ UNCHANGED <<bookVars, stratVars, tradeVars, holdings>>

\* check_stop_loss_take_profit, lines 279-299: get_current_price answers;
\* avg_price is the pchs_avg_pric of the holding.  A stop-loss or a
\* take-profit order of at least one share is submitted (lines 304, 323)
ManageGetCurrentPriceReturn(ok, current_price, avg_price) ==
    LET holding_qty == manage_holdings[StockOrder[manage_i]]
        action == profit_action(current_price, avg_price)
        quantity == ManageQuantity(action, holding_qty)
    IN  /\ manage_pc = "get_current_price"
        /\ IF ok /\ action # "hold" /\ quantity >= 1
           THEN /\ manage_pc' = "sell_order"
                /\ manage_qty' = quantity
                /\ UNCHANGED <<manage_holdings, manage_i>>
           ELSE ManageAdvance(manage_holdings, manage_i)
        /\ UNCHANGED <<bookVars, stratVars, tradeVars, holdings>>

\* execute_stop_loss, lines 304-312, and execute_take_profit, lines 323-331:
\* sell_order answers.  Neither function calls update_position; the broker
\* confirms a sale of no more than the account holds
ManageSellOrderReturn(result) ==
    LET stock_code == StockOrder[manage_i]
    IN  /\ manage_pc = "sell_order"
        /\ result = "0" => manage_qty <= holdings[stock_code]
        /\ holdings' = IF result = "0"
                       THEN [holdings EXCEPT ![stock_code] = @ - manage_qty]
                       ELSE holdings
        /\ ManageAdvance(manage_holdings, manage_i)
        /\ UNCHANGED <<bookVars, stratVars, tradeVars>>

\* the account at the start of a trading day: prepare_trading_day has run, one
\* stock is targeted, and the second strategy holds nothing or the shares of
\* one confirmed buy
AccountBooks ==
    {EmptyBook, update_position(EmptyBook, "A", "BUY", BuyQuantity(25000), 25000)}

InitAccount ==
    /\ \E book \in AccountBooks :
          /\ positions = [s \in Strategies |-> IF s = "macd" THEN book ELSE EmptyBook]
          /\ holdings = [c \in Stocks |-> HeldQty(book, c)]
    /\ fills = [s \in Strategies |-> [c \in Stocks |-> NoFills]]
    /\ last_call = NoCall
    /\ calls = 0
    /\ is_trading_time = TRUE
    /\ target_stocks = <<"A">>
    /\ pc = "idle"
    /\ cycle = <<>>
    /\ idx = 0
    /\ strategy_i = 0
    /\ all_signals = <<>>
    /\ sig_i = 0
    /\ order = NoOrder
    /\ consumed = <<>>
    /\ attempts = <<>>
    /\ discarded = <<>>
    /\ last_result = ""
    /\ analysed = <<>>
    /\ failed = {}
    /\ filled = 0
    /\ manage_pc = "idle"
    /\ manage_holdings = NoHoldings
    /\ manage_i = 0
    /\ manage_qty = 0
    /\ InitIdle

\* execute_trading and manage_positions, both started by the scheduler at
\* minute 0 of the hours 9 to 15 (lines 48-60), interleaved at their awaits
NextAccount ==
    \/ \E in_window \in BOOLEAN : ExecuteTrading(in_window)
    \/ \E outcome \in {"data", "empty", "raise"} : GetDailyChartReturn(outcome)
    \/ \E ind \in Indicators, raises \in BOOLEAN : StrategyAnalyze(ind, raises)
    \/ ProcessSignalsStart
    \/ TakeSignal
    \/ \E ok \in BOOLEAN, price \in Quotes : GetCurrentPriceReturn(ok, price)
    \/ \E result \in {"0", "1", "raise"} : BuyOrderReturn(result)
    \/ \E ok \in BOOLEAN : GetBalanceReturn(ok)
    \/ \E result \in {"0", "1", "raise"} : SellOrderReturn(result)
    \/ AnalyzeAndTradeReturn
    \/ SleepReturn
    \/ ManagePositions
    \/ \E ok \in BOOLEAN : ManageGetBalanceReturn(ok)
    \/ \E ok \in BOOLEAN, price \in Quotes, avg_price \in Prices :
          ManageGetCurrentPriceReturn(ok, price, avg_price)
    \/ \E result \in {"0", "1", "raise"} : ManageSellOrderReturn(result)

SpecAccount == InitAccount /\ [][NextAccount]_vars

\* ------------------------------------------------------- long target lists
MaxLong == 21        \* longest target_stocks list of a long cycle

\* analyze_themes, lines 107-116: up to 3 x 5 theme stocks and 10 volume-surge
\* stocks are appended to target_stocks, more than execute_trading analyses in
\* one cycle; a list of n entries
LongList(n) == [i \in 1..n |-> IF i % 2 = 1 THEN "A" ELSE "B"]

LongTargetLists == {LongList(n) : n \in {0} \cup TargetLimit..MaxLong}

\* the indicator outcomes of a long cycle: signals of one confidence
CycleIndicators == {ind \in Indicators : ind.confidence = MinConfidence}

\* the jobs of the scheduler with target lists around the limit of a cycle
NextCycle ==
    \/ \E ok \in BOOLEAN : PrepareTradingDay(ok)
    \/ \E stocks \in LongTargetLists : AnalyzeThemes(stocks)
    \/ EndTradingDay
    \/ \E in_window \in BOOLEAN : ExecuteTrading(in_window)
    \/ \E outcome \in {"data", "empty", "raise"} : GetDailyChartReturn(outcome)
    \/ \E ind \in CycleIndicators, raises \in BOOLEAN : StrategyAnalyze(ind, raises)
    \/ ProcessSignalsStart
    \/ TakeSignal
    \/ \E ok \in BOOLEAN : GetCurrentPriceReturn(ok, 25000)
    \/ \E result \in {"0", "1", "raise"} : BuyOrderReturn(result)
    \/ \E ok \in BOOLEAN : GetBalanceReturn(ok)
    \/ \E result \in {"0", "1", "raise"} : SellOrderReturn(result)
    \/ AnalyzeAndTradeReturn
    \/ SleepReturn

SpecCycle == Init /\ [][NextCycle]_vars

\* ------------------------------------------------------------ float values
\* pandas / numpy floats.  A value is a number kept in fixed point (v counts
\* units of 1/Scale), NaN, or an infinity; arithmetic follows IEEE 754 for the
\* special values and truncates the results of divisions to the unit.
Scale == 1000        \* fixed-point units per 1.0
MaxBars == 30        \* longest bar series analysed

Num(v) == [k |-> "num", v |-> v]
NaN == [k |-> "nan", v |-> 0]
Inf == [k |-> "inf", v |-> 0]
NegInf == [k |-> "-inf", v |-> 0]

IsNum(x) == x.k = "num"
IsNaN(x) == x.k = "nan"
Rank(x) == CASE x.k = "inf" -> 1 [] x.k = "-inf" -> -1 [] OTHER -> 0

\* a Python number literal or parameter, given as numerator and denominator
FromRat(r) == Num((r[1] * Scale) \div r[2])

Abs(a) == IF a < 0 THEN -a ELSE a

\* integer quotient truncated toward zero
Quot(a, b) == IF (a < 0) = (b < 0) THEN Abs(a) \div Abs(b) ELSE -(Abs(a) \div Abs(b))

\* comparisons: every comparison with NaN is False
FLt(a, b) ==
    /\ ~IsNaN(a)
    /\ ~IsNaN(b)
    /\ \/ Rank(a) < Rank(b)
       \/ IsNum(a) /\ IsNum(b) /\ a.v < b.v
FGt(a, b) == FLt(b, a)
FLe(a, b) == ~IsNaN(a) /\ ~IsNaN(b) /\ ~FLt(b, a)
FGe(a, b) == FLe(b, a)

FNeg(a) ==
    CASE a.k = "num" -> Num(-a.v)
      [] a.k = "inf" -> NegInf
      [] a.k = "-inf" -> Inf
      [] OTHER -> NaN

FAbs(a) ==
    CASE a.k = "num" -> Num(Abs(a.v))
      [] a.k = "nan" -> NaN
      [] OTHER -> Inf

FAdd(a, b) ==
    CASE IsNaN(a) \/ IsNaN(b) -> NaN
      [] IsNum(a) /\ IsNum(b) -> Num(a.v + b.v)
      [] IsNum(a) -> b
      [] IsNum(b) -> a
      [] a = b -> a
      [] OTHER -> NaN

FSub(a, b) == FAdd(a, FNeg(b))

\* a * p / q for integers p and q > 0
FTimes(a, p, q) ==
    CASE IsNum(a) -> Num(Quot(a.v * p, q))
      [] IsNaN(a) \/ p = 0 -> NaN
      [] p > 0 -> a
      [] OTHER -> FNeg(a)

FMul(a, b) ==
    IF IsNum(a) /\ IsNum(b) THEN Num(Quot(a.v * b.v, Scale))
    ELSE IF IsNaN(a) \/ IsNaN(b) THEN NaN
    ELSE IF IsNum(a) THEN FTimes(b, a.v, 1)
    ELSE IF IsNum(b) THEN FTimes(a, b.v, 1)
    ELSE IF a = b THEN Inf ELSE NegInf

\* float division as numpy does it: x/0 is an infinity, 0/0 is NaN
FDiv(a, b) ==
    CASE IsNaN(a) \/ IsNaN(b) -> NaN
      [] IsNum(a) /\ IsNum(b) ->
            IF b.v # 0 THEN Num(Quot(a.v * Scale, b.v))
            ELSE IF a.v > 0 THEN Inf
            ELSE IF a.v < 0 THEN NegInf
            ELSE NaN
      [] IsNum(a) -> Num(0)
      [] IsNum(b) -> IF b.v >= 0 THEN a ELSE FNeg(a)
      [] OTHER -> NaN

RECURSIVE IsqrtBetween(_, _, _)
IsqrtBetween(n, lo, hi) ==
    IF lo >= hi THEN lo
    ELSE LET mid == (lo + hi + 1) \div 2
         IN  IF mid * mid <= n THEN IsqrtBetween(n, mid, hi)
             ELSE IsqrtBetween(n, lo, mid - 1)

Isqrt(n) == IsqrtBetween(n, 0, IF n < 46340 THEN n ELSE 46340)

FSqrt(a) ==
    CASE IsNum(a) -> IF a.v < 0 THEN NaN ELSE Num(Isqrt(a.v * Scale))
      [] a.k = "inf" -> Inf
      [] OTHER -> NaN

\* Python's min(a, b): a unless b < a
PyMin(a, b) == IF FLt(b, a) THEN b ELSE a

\* --------------------------------------------------------- pandas Series
RECURSIVE FSum(_)
FSum(xs) ==
    IF xs = <<>> THEN Num(0)
    ELSE FAdd(FSum(SubSeq(xs, 1, Len(xs) - 1)), xs[Len(xs)])

Window(series, i, window) == SubSeq(series, i - window + 1, i)

AllNum(xs) == \A j \in 1..Len(xs) : IsNum(xs[j])

\* Series.rolling(window).mean(): undefined until the window is full of numbers
rolling_mean(series, window) ==
    [i \in 1..Len(series) |->
        IF i < window THEN NaN ELSE FTimes(FSum(Window(series, i, window)), 1, window)]

\* standard deviation of a full window, ddof = 1 (the pandas default)
StdOf(xs) ==
    LET n == Len(xs)
        mean == FTimes(FSum(xs), 1, n)
        sq == [j \in 1..n |-> FMul(FSub(xs[j], mean), FSub(xs[j], mean))]
    IN  IF n < 2 THEN NaN ELSE FSqrt(FTimes(FSum(sq), 1, n - 1))

\* Series.rolling(window).std()
rolling_std(series, window) ==
    [i \in 1..Len(series) |->
        IF i < window THEN NaN ELSE StdOf(Window(series, i, window))]

MaxOf(xs) == LET vs == {xs[j].v : j \in 1..Len(xs)} IN CHOOSE m \in vs : \A v \in vs : v <= m
MinOf(xs) == LET vs == {xs[j].v : j \in 1..Len(xs)} IN CHOOSE m \in vs : \A v \in vs : m <= v

\* Series.rolling(window).max() and .min()
rolling_max(series, window) ==
    [i \in 1..Len(series) |->
        IF i < window \/ ~AllNum(Window(series, i, window)) THEN NaN
        ELSE Num(MaxOf(Window(series, i, window)))]

rolling_min(series, window) ==
    [i \in 1..Len(series) |->
        IF i < window \/ ~AllNum(Window(series, i, window)) THEN NaN
        ELSE Num(MinOf(Window(series, i, window)))]

\* Series.shift() and Series.diff()
shift(series) == [i \in 1..Len(series) |-> IF i = 1 THEN NaN ELSE series[i - 1]]

diff(series) == [i \in 1..Len(series) |-> FSub(series[i], shift(series)[i])]

\* DataFrame.max(axis=1): the largest number of a row, NaN entries skipped
RowMax(row) ==
    LET nums == SelectSeq(row, IsNum)
    IN  IF nums = <<>> THEN NaN ELSE Num(MaxOf(nums))

\* one step of Series.ewm(span=span, adjust=False).mean():
\* y[t] = (1 - alpha) * y[t-1] + alpha * x[t] with alpha = 2 / (span + 1)
ewm_step(before, x, span) ==
    FTimes(FAdd(FTimes(before, span - 1, 1), FTimes(x, 2, 1)), 1, span + 1)

\* Series.ewm(span=span, adjust=False).mean(): y[0] = x[0], then the steps
RECURSIVE ewm_mean(_, _)
ewm_mean(series, span) ==
    IF Len(series) <= 1 THEN series
    ELSE LET before == ewm_mean(SubSeq(series, 1, Len(series) - 1), span)
         IN  Append(before, ewm_step(before[Len(before)], series[Len(series)], span))

\* ------------------------------------------------------ TechnicalAnalyzer
\* default arguments of the analyzer's functions
SqueezeDefaults == [bb_length |-> 20, kc_length |-> 20, kc_mult |-> <<3, 2>>, mom_length |-> 12]
BollingerDefaults == [period |-> 20, std_dev |-> 2]
VolumeProfileDefaults == [bins |-> 20]
MacdDefaults == [fast |-> 12, slow |-> 26, signal |-> 9]
RsiDefaults == [period |-> 14]

calculate_sma(series, period) == rolling_mean(series, period)

calculate_ema(series, period) == ewm_mean(series, period)

\* lines 18-27
calculate_atr(high, low, close, period) ==
    LET prev_close == shift(close)
        true_range == [i \in 1..Len(close) |->
                          RowMax(<<FSub(high[i], low[i]),
                                   FAbs(FSub(high[i], prev_close[i])),
                                   FAbs(FSub(low[i], prev_close[i]))>>)]
    IN  rolling_mean(true_range, period)

\* lines 30-39
calculate_bollinger_bands(close, period, std_dev) ==
    LET sma == calculate_sma(close, period)
        std == rolling_std(close, period)
    IN  [upper |-> [i \in 1..Len(close) |-> FAdd(sma[i], FTimes(std[i], std_dev, 1))],
         middle |-> sma,
         lower |-> [i \in 1..Len(close) |-> FSub(sma[i], FTimes(std[i], std_dev, 1))]]

\* squeeze_on with the two band comparisons joined by "or"
squeeze_on_either(bb_lower, bb_upper, kc_lower, kc_upper) ==
    FGt(bb_lower, kc_lower) \/ FLt(bb_upper, kc_upper)

\* line 58, for one bar
squeeze_on(bb_lower, bb_upper, kc_lower, kc_upper) ==
    FGt(bb_lower, kc_lower) /\ FLt(bb_upper, kc_upper)

\* line 59, for one bar
squeeze_off(bb_lower, bb_upper, kc_lower, kc_upper) ==
    FLt(bb_lower, kc_lower) \/ FGt(bb_upper, kc_upper)

\* line 60, for one bar
no_squeeze(on, off) == ~(on \/ off)

\* np.polyfit(np.arange(len(y)), y, 1)[0]: the least-squares slope
\* sum((x - mean(x)) * y) / sum((x - mean(x))^2), both sums doubled so that
\* the weights 2x - (len - 1) are integers.  A NaN in y gives a NaN slope
\* (the decomposition is of the matrix of x, which holds no NaN).
polyfit_slope(y) ==
    LET n == Len(y)
        weighted == [j \in 1..n |-> FTimes(y[j], 2 * (j - 1) - (n - 1), 1)]
    IN  FTimes(FSum(weighted), 1, (n * (n * n - 1)) \div 6)

\* lines 70-81
momentum_values(momentum, mom_length) ==
    [i \in 1..Len(momentum) |->
        IF i - 1 < mom_length THEN Num(0)
        ELSE LET y == SubSeq(momentum, i - mom_length + 1, i)
             IN  IF Len(y) > 1 THEN polyfit_slope(y) ELSE Num(0)]

\* lines 57-60 and 83-92: the squeeze states of the bands, and the dict
SqueezeDict(bb_lower, bb_upper, kc_lower, kc_upper, momentum) ==
    LET n == Len(momentum)
        on == [i \in 1..n |-> squeeze_on(bb_lower[i], bb_upper[i], kc_lower[i], kc_upper[i])]
        off == [i \in 1..n |-> squeeze_off(bb_lower[i], bb_upper[i], kc_lower[i], kc_upper[i])]
    IN  [squeeze_on |-> on,
         squeeze_off |-> off,
         no_squeeze |-> [i \in 1..n |-> no_squeeze(on[i], off[i])],
         momentum |-> momentum,
         bb_upper |-> bb_upper,
         bb_lower |-> bb_lower,
         kc_upper |-> kc_upper,
         kc_lower |-> kc_lower]

\* lines 42-92
calculate_squeeze_momentum(high, low, close, bb_length, kc_length, kc_mult, mom_length) ==
    LET n == Len(close)
        bb == calculate_bollinger_bands(close, bb_length, BollingerDefaults.std_dev)
        hl2 == [i \in 1..n |-> FTimes(FAdd(high[i], low[i]), 1, 2)]
        kc_middle == calculate_sma(hl2, kc_length)
        atr == calculate_atr(high, low, close, kc_length)
        kc_upper == [i \in 1..n |-> FAdd(kc_middle[i], FTimes(atr[i], kc_mult[1], kc_mult[2]))]
        kc_lower == [i \in 1..n |-> FSub(kc_middle[i], FTimes(atr[i], kc_mult[1], kc_mult[2]))]
        highest == rolling_max(high, mom_length)
        lowest == rolling_min(low, mom_length)
        sma == calculate_sma(close, mom_length)
        momentum == [i \in 1..n |->
                        FSub(close[i],
                             FTimes(FAdd(FTimes(FAdd(highest[i], lowest[i]), 1, 2), sma[i]),
                                    1, 2))]
    IN  SqueezeDict(bb.lower, bb.upper, kc_lower, kc_upper,
                    momentum_values(momentum, mom_length))

\* lines 107-114: the histogram and the dict
MacdDict(macd_line, macd_signal) ==
    [macd |-> macd_line,
     signal |-> macd_signal,
     histogram |-> [i \in 1..Len(macd_line) |-> FSub(macd_line[i], macd_signal[i])]]

\* lines 95-114
calculate_macd(close, fast, slow, signal) ==
    LET ema_fast == calculate_ema(close, fast)
        ema_slow == calculate_ema(close, slow)
        macd_line == [i \in 1..Len(close) |-> FSub(ema_fast[i], ema_slow[i])]
    IN  MacdDict(macd_line, calculate_ema(macd_line, signal))

\* lines 126-132: the rolling mean up to index period - 1, then the loop
\* avg[i] = (avg[i-1] * (period - 1) + x[i]) / period
RECURSIVE wilder_average(_, _)
wilder_average(series, period) ==
    IF Len(series) <= period THEN rolling_mean(series, period)
    ELSE LET before == wilder_average(SubSeq(series, 1, Len(series) - 1), period)
         IN  Append(before,
                    FTimes(FAdd(FTimes(before[Len(before)], period - 1, 1),
                                series[Len(series)]),
                           1, period))

\* lines 119-123
rsi_gain(close) ==
    LET delta == diff(close)
    IN  [i \in 1..Len(close) |-> IF FGt(delta[i], Num(0)) THEN delta[i] ELSE Num(0)]

rsi_loss(close) ==
    LET delta == diff(close)
    IN  [i \in 1..Len(close) |-> FNeg(IF FLt(delta[i], Num(0)) THEN delta[i] ELSE Num(0))]

\* lines 135-136, for one index
rsi_value(avg_gain, avg_loss) ==
    LET rs == FDiv(avg_gain, avg_loss)
    IN  FSub(Num(100 * Scale), FDiv(Num(100 * Scale), FAdd(Num(Scale), rs)))

\* lines 117-138
calculate_rsi(close, period) ==
    LET avg_gain == wilder_average(rsi_gain(close), period)
        avg_loss == wilder_average(rsi_loss(close), period)
    IN  [i \in 1..Len(close) |-> rsi_value(avg_gain[i], avg_loss[i])]

\* pd.cut(close, bins) raises ValueError on an empty array, on an infinite
\* value and when no value is a number (the edges are not unique)
cut_raises(close) ==
    \/ Len(close) = 0
    \/ \E i \in 1..Len(close) : Rank(close[i]) # 0
    \/ SelectSeq(close, IsNum) = <<>>

\* the bins + 1 edges pd.cut lays over the closes, in units of 1/Scale: equal
\* widths from the least to the largest close, the first edge lowered by 0.1%
\* of the range; when all closes are equal the range is first widened by 0.1%
\* of the value on either side (by 0.001 around zero)
cut_edges(close, bins) ==
    LET nums == SelectSeq(close, IsNum)
        mn == MinOf(nums)
        mx == MaxOf(nums)
        widen == IF mn # 0 THEN Abs(mn) \div 1000 ELSE Scale \div 1000
        lo == IF mn = mx THEN mn - widen ELSE mn
        hi == IF mn = mx THEN mx + widen ELSE mx
        adj == IF mn = mx THEN 0 ELSE (mx - mn) \div 1000
    IN  [j \in 1..(bins + 1) |->
            IF j = 1 THEN lo - adj ELSE lo + Quot((hi - lo) * (j - 1), bins)]

\* the bin (left, right] a close falls in, 0 for NaN
cut_bin(edges, x) ==
    IF ~IsNum(x) THEN 0
    ELSE LET js == {j \in 1..(Len(edges) - 1) : x.v <= edges[j + 1]}
         IN  CHOOSE j \in js : \A k \in js : j <= k

\* df.groupby(price_bins)['volume'].sum(): one sum per bin, in bin order
price_volume(edges, close, volume) ==
    LET bin == [i \in 1..Len(close) |-> cut_bin(edges, close[i])]
    IN  [j \in 1..(Len(edges) - 1) |->
            FSum([i \in 1..Len(close) |-> IF bin[i] = j THEN volume[i] ELSE Num(0)])]

\* Series.idxmax(): the first bin with the largest sum
idxmax(sums) ==
    LET m == MaxOf(sums)
        js == {j \in 1..Len(sums) : sums[j].v = m}
    IN  CHOOSE j \in js : \A k \in js : j <= k

\* lines 183-205.  The try block (lines 187-198) returns the sums per bin and
\* the midpoint of the bin with the largest sum; the handler (lines 199-205)
\* returns an empty profile and the last close, 0 for a frame without rows.
\* Both return df['volume'].rolling(20).mean() as avg_volume
calculate_volume_profile(close, volume, bins) ==
    IF cut_raises(close)
    THEN [volume_profile |-> <<>>,
          poc |-> IF Len(close) > 0 THEN close[Len(close)] ELSE Num(0),
          avg_volume |-> rolling_mean(volume, 20)]
    ELSE LET edges == cut_edges(close, bins)
             sums == price_volume(edges, close, volume)
             max_volume_idx == idxmax(sums)
         IN  [volume_profile |-> sums,
              poc |-> Num(Quot(edges[max_volume_idx] + edges[max_volume_idx + 1], 2)),
              avg_volume |-> rolling_mean(volume, 20)]

\* ------------------------------------------------------------- strategies
\* self.params of the two strategies; a float parameter is numerator and
\* denominator
SqueezeParams == [bb_length |-> 20, kc_length |-> 20, kc_mult |-> <<3, 2>>, mom_length |-> 12,
                  min_momentum |-> <<1, 2>>, volume_threshold |-> <<3, 2>>]
MACDParams == [fast_period |-> 12, slow_period |-> 26, signal_period |-> 9,
               min_histogram |-> <<1, 10>>, rsi_oversold |-> 30, rsi_overbought |-> 70]

\* a row of the daily chart: the broker's fields, prices and volume as whole numbers
Bar(close, high, low, volume) ==
    [stck_clpr |-> close, stck_hgpr |-> high, stck_lwpr |-> low, acml_vol |-> volume]

\* pd.to_numeric(df[name])
ToNumeric(frame, name) == [i \in 1..Len(frame) |-> Num(frame[i][name] * Scale)]

\* SqueezeMomentumStrategy.analyze, lines 22-39, for a frame of at least one row
SqueezeAnalyze(frame) ==
    LET close == ToNumeric(frame, "stck_clpr")
        high == ToNumeric(frame, "stck_hgpr")
        low == ToNumeric(frame, "stck_lwpr")
        volume == ToNumeric(frame, "acml_vol")
    IN  [strategy |-> "squeeze_momentum",
         squeeze_data |-> calculate_squeeze_momentum(high, low, close,
                              SqueezeDefaults.bb_length, SqueezeDefaults.kc_length,
                              SqueezeDefaults.kc_mult, SqueezeDefaults.mom_length),
         volume_analysis |-> calculate_volume_profile(close, volume,
                                                     VolumeProfileDefaults.bins),
         current_price |-> close[Len(close)],
         current_volume |-> volume[Len(volume)]]

\* MACDStrategy.analyze, lines 22-43, for a frame of at least one row
MACDAnalyze(frame) ==
    LET close == ToNumeric(frame, "stck_clpr")
        volume == ToNumeric(frame, "acml_vol")
    IN  [strategy |-> "macd",
         macd_data |-> calculate_macd(close, MacdDefaults.fast, MacdDefaults.slow,
                                      MacdDefaults.signal),
         rsi |-> calculate_rsi(close, RsiDefaults.period),
         volume_analysis |-> calculate_volume_profile(close, volume,
                                                     VolumeProfileDefaults.bins),
         current_price |-> close[Len(close)],
         current_volume |-> volume[Len(volume)]]

\* df['close'].iloc[-1] of analyze (squeeze line 37, MACD line 41) on a frame
\* without rows: IndexError
AnalyzeRaises(frame) == Len(frame) = 0

Signal(stock_code, action, price, confidence) ==
    [stock_code |-> stock_code, action |-> action, price |-> price, confidence |-> confidence]

\* the squeeze confidence without its upper limit
SqueezeConfidenceUnclamped(current_momentum) == FTimes(FAbs(current_momentum), 10, 1)

\* squeeze lines 70 and 83: min(abs(current_momentum) * 10, 100)
SqueezeConfidence(current_momentum) ==
    PyMin(FTimes(FAbs(current_momentum), 10, 1), Num(100 * Scale))

\* MACD line 72: min((current_histogram / min_histogram) * 20, 100)
MACDBuyConfidence(current_histogram) ==
    PyMin(FTimes(FDiv(current_histogram, FromRat(MACDParams.min_histogram)), 20, 1),
          Num(100 * Scale))

\* MACD line 89: min((abs(current_histogram) / min_histogram) * 20, 100)
MACDSellConfidence(current_histogram) ==
    PyMin(FTimes(FDiv(FAbs(current_histogram), FromRat(MACDParams.min_histogram)), 20, 1),
          Num(100 * Scale))

\* the squeeze BUY condition without the volume surge
SqueezeBuyNoVolume(squeeze_off_current, squeeze_on_prev, current_momentum, prev_momentum, volume_surge) ==
    /\ squeeze_off_current
    /\ squeeze_on_prev
    /\ FGt(current_momentum, FromRat(SqueezeParams.min_momentum))
    /\ FGt(current_momentum, prev_momentum)

\* squeeze lines 60-62
SqueezeBuy(squeeze_off_current, squeeze_on_prev, current_momentum, prev_momentum, volume_surge) ==
    /\ squeeze_off_current
    /\ squeeze_on_prev
    /\ FGt(current_momentum, FromRat(SqueezeParams.min_momentum))
    /\ FGt(current_momentum, prev_momentum)
    /\ volume_surge

\* the squeeze SELL condition with both comparisons made non-strict
SqueezeSellNonStrict(current_momentum, prev_momentum, held) ==
    /\ FLe(current_momentum, Num(0))
    /\ FGe(prev_momentum, Num(0))
    /\ held

\* squeeze lines 74-75
SqueezeSell(current_momentum, prev_momentum, held) ==
    /\ FLt(current_momentum, Num(0))
    /\ FGt(prev_momentum, Num(0))
    /\ held

\* SqueezeMomentumStrategy.generate_signals, lines 41-86, on the analysis of
\* a frame of at least one row; book is self.positions
SqueezeGenerateSignals(book, stock_code, a) ==
    LET momentum == a.squeeze_data.momentum
        n == Len(momentum)
        current_momentum == momentum[n]
        prev_momentum == IF n > 1 THEN momentum[n - 1] ELSE Num(0)
        squeeze_off_current == a.squeeze_data.squeeze_off[n]
        squeeze_on_prev == IF n > 1 THEN a.squeeze_data.squeeze_on[n - 1] ELSE FALSE
        avg_volume == a.volume_analysis.avg_volume[n]
        volume_surge == FGt(a.current_volume,
                            FTimes(avg_volume, SqueezeParams.volume_threshold[1],
                                   SqueezeParams.volume_threshold[2]))
    IN  IF SqueezeBuy(squeeze_off_current, squeeze_on_prev, current_momentum,
                      prev_momentum, volume_surge)
        THEN <<Signal(stock_code, "BUY", a.current_price, SqueezeConfidence(current_momentum))>>
        ELSE IF SqueezeSell(current_momentum, prev_momentum, stock_code \in DOMAIN book)
             THEN <<Signal(stock_code, "SELL", a.current_price,
                           SqueezeConfidence(current_momentum))>>
             ELSE <<>>

\* the MACD BUY condition with RSI <= 50 in place of RSI < 50
MACDBuyRsiInclusive(current_macd, current_signal, current_histogram, prev_histogram, current_rsi) ==
    /\ FGt(current_macd, current_signal)
    /\ FLe(prev_histogram, Num(0))
    /\ FGt(current_histogram, Num(0))
    /\ FLe(current_rsi, Num(50 * Scale))
    /\ FGt(current_histogram, FromRat(MACDParams.min_histogram))

\* MACD lines 59-61
MACDBuy(current_macd, current_signal, current_histogram, prev_histogram, current_rsi) ==
    /\ FGt(current_macd, current_signal)
    /\ FLe(prev_histogram, Num(0))
    /\ FGt(current_histogram, Num(0))
    /\ FLt(current_rsi, Num(50 * Scale))
    /\ FGt(current_histogram, FromRat(MACDParams.min_histogram))

\* the MACD SELL condition without the test of self.positions
MACDSellAnyBook(current_macd, current_signal, current_histogram, prev_histogram, current_rsi, held) ==
    /\ FLt(current_macd, current_signal)
    /\ FGe(prev_histogram, Num(0))
    /\ FLt(current_histogram, Num(0))
    /\ FGt(current_rsi, Num(50 * Scale))

\* MACD lines 76-78
MACDSell(current_macd, current_signal, current_histogram, prev_histogram, current_rsi, held) ==
    /\ FLt(current_macd, current_signal)
    /\ FGe(prev_histogram, Num(0))
    /\ FLt(current_histogram, Num(0))
    /\ FGt(current_rsi, Num(50 * Scale))
    /\ held

\* MACDStrategy.generate_signals, lines 45-92, on the analysis of a frame of
\* at least one row; book is self.positions
MACDGenerateSignals(book, stock_code, a) ==
    LET histogram == a.macd_data.histogram
        n == Len(histogram)
        current_macd == a.macd_data.macd[n]
        current_signal == a.macd_data.signal[n]
        current_histogram == histogram[n]
        prev_histogram == IF n > 1 THEN histogram[n - 1] ELSE Num(0)
        current_rsi == a.rsi[n]
    IN  IF MACDBuy(current_macd, current_signal, current_histogram, prev_histogram,
                   current_rsi)
        THEN <<Signal(stock_code, "BUY", a.current_price,
                      MACDBuyConfidence(current_histogram))>>
        ELSE IF MACDSell(current_macd, current_signal, current_histogram, prev_histogram,
                         current_rsi, stock_code \in DOMAIN book)
             THEN <<Signal(stock_code, "SELL", a.current_price,
                           MACDSellConfidence(current_histogram))>>
             ELSE <<>>

\* ------------------------------------------- the strategies on bar series
\* bar series a daily chart can hold, by shape; every prefix is a series too
Flat(n) == [i \in 1..n |-> Bar(10, 10, 10, 100)]
Rising(n) == [i \in 1..n |-> Bar(9 + i, 9 + i, 9 + i, 100)]
Falling(n) == [i \in 1..n |-> Bar(50 - i, 58 - i, 50 - i, 100)]
Ranging(n) == [i \in 1..n |-> Bar(10, 12, 8, 100)]
Zigzag(n) == [i \in 1..n |-> Bar(10 + 2 * (i % 2), 11 + 2 * (i % 2), 9 + 2 * (i % 2), 100)]

BarSeries ==
    UNION {{Flat(n), Rising(n), Falling(n), Ranging(n), Zigzag(n)} : n \in 0..MaxBars}

\* the books a strategy can hold when it is asked for signals: nothing, or
\* one share of stock A from a confirmed BUY
HeldBook == update_position(EmptyBook, "A", "BUY", 1, 10000)
Books == {EmptyBook, HeldBook}

InitHeld(book) ==
    /\ positions = [s \in Strategies |-> book]
    /\ fills = [s \in Strategies |-> [c \in Stocks |->
                   IF c \in DOMAIN book
                   THEN RecordFill(NoFills, book, c, "BUY", book[c].quantity, 10000)
                   ELSE NoFills]]
    /\ last_call = NoCall
    /\ calls = 0

\* a frame is given and no strategy has run
InitStrategy ==
    /\ \E book \in Books : InitHeld(book)
    /\ InitSched
    /\ df \in BarSeries
    /\ analysis = NoAnalysis
    /\ returned = NoReturn

\* analysis = await strategy.analyze(stock_code, df), squeeze lines 19-39
SqueezeAnalyzeCall(stock_code) ==
    /\ analysis = NoAnalysis
    /\ returned = NoReturn
    /\ IF AnalyzeRaises(df)
       THEN /\ returned' = [strategy |-> "squeeze_momentum", stock_code |-> stock_code,
                           raised |-> TRUE, list |-> <<>>]
            /\ UNCHANGED analysis
       ELSE /\ analysis' = SqueezeAnalyze(df)
            /\ UNCHANGED returned
    /\ UNCHANGED <<bookVars, schedVars, df>>

\* analysis = await strategy.analyze(stock_code, df), MACD lines 19-43
MACDAnalyzeCall(stock_code) ==
    /\ analysis = NoAnalysis
    /\ returned = NoReturn
    /\ IF AnalyzeRaises(df)
       THEN /\ returned' = [strategy |-> "macd", stock_code |-> stock_code,
                           raised |-> TRUE, list |-> <<>>]
            /\ UNCHANGED analysis
       ELSE /\ analysis' = MACDAnalyze(df)
            /\ UNCHANGED returned
    /\ UNCHANGED <<bookVars, schedVars, df>>

\* signals = await strategy.generate_signals(stock_code, analysis), squeeze
SqueezeGenerateSignalsCall(stock_code) ==
    /\ analysis.strategy = "squeeze_momentum"
    /\ returned = NoReturn
    /\ returned' = [strategy |-> "squeeze_momentum", stock_code |-> stock_code,
                   raised |-> FALSE,
                   list |-> SqueezeGenerateSignals(positions["squeeze_momentum"],
                                                   stock_code, analysis)]
    /\ UNCHANGED <<bookVars, schedVars, df, analysis>>

\* signals = await strategy.generate_signals(stock_code, analysis), MACD
MACDGenerateSignalsCall(stock_code) ==
    /\ analysis.strategy = "macd"
    /\ returned = NoReturn
    /\ returned' = [strategy |-> "macd", stock_code |-> stock_code, raised |-> FALSE,
                   list |-> MACDGenerateSignals(positions["macd"], stock_code, analysis)]
    /\ UNCHANGED <<bookVars, schedVars, df, analysis>>

NextStrategy ==
    \/ \E stock_code \in Stocks : SqueezeAnalyzeCall(stock_code)
    \/ \E stock_code \in Stocks : MACDAnalyzeCall(stock_code)
    \/ \E stock_code \in Stocks : SqueezeGenerateSignalsCall(stock_code)
    \/ \E stock_code \in Stocks : MACDGenerateSignalsCall(stock_code)

SpecStrategy == InitStrategy /\ [][NextStrategy]_vars

\* ------------------------------------- generate_signals on indicator values
\* generate_signals reads the last two entries of each series only: a frame
\* of two or more rows is given by the last two entries of its indicators,
\* drawn from the values below; a frame of one row is analysed as it is.
Half(h) == Num((h * Scale) \div 2)

\* bb_lower, bb_upper, kc_lower, kc_upper of one bar: undefined, squeeze on,
\* off on both sides, off on the lower side, equal bands, equal lower bands
BandCases ==
    {<<NaN, NaN, NaN, NaN>>,
     <<Half(19), Half(21), Half(18), Half(22)>>,
     <<Half(16), Half(24), Half(18), Half(22)>>,
     <<Half(17), Half(21), Half(18), Half(22)>>,
     <<Half(20), Half(20), Half(20), Half(20)>>,
     <<Half(18), Half(21), Half(18), Half(22)>>}

PrevMomenta == {NaN, Num(0), Num(1), Num(Scale)}
CurMomenta == {NaN, Num(-Scale), Num(0), Half(1), Num(Scale \div 2 + 1), Num(Scale),
               Num(11 * Scale)}
AvgVolumes == {NaN, Num(100 * Scale)}
CurVolumes == {Num(150 * Scale), Num(151 * Scale)}

SqueezeTails ==
    {[strategy |-> "squeeze_momentum",
      squeeze_data |-> SqueezeDict(<<b1[1], b2[1]>>, <<b1[2], b2[2]>>, <<b1[3], b2[3]>>,
                                   <<b1[4], b2[4]>>, <<m1, m2>>),
      volume_analysis |-> [avg_volume |-> <<NaN, avg>>],
      current_price |-> Num(10 * Scale),
      current_volume |-> vol] :
        b1 \in BandCases, b2 \in BandCases, m1 \in PrevMomenta, m2 \in CurMomenta,
        avg \in AvgVolumes, vol \in CurVolumes}

\* the MACD line of the last two bars and the signal line of the bar before
\* the last; the last signal value follows from them (line 105)
PrevMacds == {Num(-Scale), Num(0), Num(Scale)}
CurMacds == {Num(-Scale), Num(0), Num(Scale \div 8), Num(Scale \div 8 + 5), Num(Scale),
             Num(6 * Scale)}
PrevSignals == {Num(0), Num(Scale)}
RsiValues == {NaN, Num(0), Num(50 * Scale - 1), Num(50 * Scale), Num(50 * Scale + 1),
              Num(100 * Scale)}

MACDTails ==
    {[strategy |-> "macd",
      macd_data |-> MacdDict(<<m1, m2>>, <<s1, ewm_step(s1, m2, MacdDefaults.signal)>>),
      rsi |-> <<NaN, r>>,
      volume_analysis |-> [avg_volume |-> <<NaN, NaN>>],
      current_price |-> Num(10 * Scale),
      current_volume |-> Num(100 * Scale)] :
        m1 \in PrevMacds, m2 \in CurMacds, s1 \in PrevSignals, r \in RsiValues}

OneRow == {Flat(1), Ranging(1)}

Analyses ==
    SqueezeTails \cup MACDTails
        \cup {SqueezeAnalyze(frame) : frame \in OneRow}
        \cup {MACDAnalyze(frame) : frame \in OneRow}

\* an analysis is given and generate_signals has not run
InitSignals ==
    /\ \E book \in Books : InitHeld(book)
    /\ InitSched
    /\ df = <<>>
    /\ analysis \in Analyses
    /\ returned = NoReturn

NextSignals ==
    \/ \E stock_code \in Stocks : SqueezeGenerateSignalsCall(stock_code)
    \/ \E stock_code \in Stocks : MACDGenerateSignalsCall(stock_code)

SpecSignals == InitSignals /\ [][NextSignals]_vars

\* ------------------------------------------------------ position book claims
\* C1: while only BUY fills were applied to a key since it was absent, its
\* quantity is the sum of the filled quantities and its avg_price is
\* (sum of quantity x price) / (sum of quantities).
C1_BuyAverage ==
    \A s \in Strategies : \A c \in DOMAIN positions[s] :
        (fills[s][c].pure /\ fills[s][c].qty > 0) =>
            /\ positions[s][c].quantity = fills[s][c].qty
            /\ positions[s][c].avg_price.n * fills[s][c].qty
                  = fills[s][c].cost * positions[s][c].avg_price.d

\* three BUY fills of different prices on one key, average 95000/3
C1_Witness ==
    \E s \in Strategies : \E c \in DOMAIN positions[s] :
        /\ fills[s][c].pure
        /\ fills[s][c].qty = 3
        /\ fills[s][c].cost = 10000 + 25000 + 60000
        /\ positions[s][c].avg_price = [n |-> 95000, d |-> 3]

\* C2: a SELL of more than the held quantity leaves the book unchanged.
C2_OversellRejected ==
    (/\ last_call.action = "SELL"
     /\ last_call.quantity > HeldQty(last_call.before, last_call.stock_code))
        => positions[last_call.strategy] = last_call.before

\* C3: every stored position has quantity > 0 and average cost > 0.
C3_StoredPositionsPositive ==
    \A s \in Strategies : \A c \in DOMAIN positions[s] :
        positions[s][c].quantity > 0 /\ positions[s][c].avg_price.n > 0

\* C4: a SELL of exactly the held quantity removes the key; a SELL of less
\* decrements quantity by the sold amount and keeps avg_price.
C4_SellExactOrPartial ==
    LET s == last_call.strategy
        c == last_call.stock_code
        held == HeldQty(last_call.before, c)
    IN  (last_call.action = "SELL" /\ held > 0) =>
            /\ last_call.quantity = held => c \notin DOMAIN positions[s]
            /\ last_call.quantity < held =>
                  /\ c \in DOMAIN positions[s]
                  /\ positions[s][c].quantity = held - last_call.quantity
                  /\ positions[s][c].avg_price = last_call.before[c].avg_price

\* a partial SELL after two BUY fills of different prices
C4_Witness ==
    /\ last_call.action = "SELL"
    /\ HeldQty(last_call.before, last_call.stock_code) = 3
    /\ last_call.quantity = 1
    /\ last_call.before[last_call.stock_code].avg_price.d = 3
    /\ HeldQty(positions[last_call.strategy], last_call.stock_code) = 2

\* ---------------------------------------------------------- scheduler claims
OrderPcs == {"buy_order", "sell_order"}

Entry(book, stock_code) ==
    IF stock_code \in DOMAIN book THEN <<book[stock_code]>> ELSE <<>>

CountOf(signals, s) == Cardinality({i \in 1..Len(signals) : signals[i].strategy = s})

\* C5: a position book changes only in the step in which buy_order or
\* sell_order answered rt_cd == '0'; every other step leaves every book as it was.
C5_OnlyConfirmedFills ==
    [][positions' # positions => (pc \in OrderPcs /\ last_result' = "0")]_vars

\* one order confirmed and applied, then an order of the same pass that failed
C5_Witness ==
    /\ last_result \in {"1", "raise"}
    /\ filled = 1
    /\ Len(attempts) = 2
    /\ \E s \in Strategies : positions[s] # EmptyBook

\* C6: a fill changes only the book of the strategy whose signal it answers,
\* and a SELL signal of a strategy is emitted only for a stock in its own book.
C6_BookOwnership ==
    [][/\ \A s \in Strategies :
            positions'[s] # positions[s] => s = all_signals[sig_i].strategy
       /\ (/\ pc = "analyze"
           /\ Len(all_signals') > Len(all_signals)
           /\ all_signals'[Len(all_signals')].action = "SELL")
            => all_signals'[Len(all_signals')].stock_code
                  \in DOMAIN positions[all_signals'[Len(all_signals')].strategy]]_vars

\* a fill for a signal of the second strategy: only that book holds the stock,
\* and that strategy then emits a SELL the first strategy is not eligible for
C6_Witness ==
    /\ pc = "get_balance"
    /\ all_signals[sig_i].strategy = "macd"
    /\ all_signals[sig_i].stock_code \in DOMAIN positions["macd"]
    /\ positions["squeeze_momentum"] = EmptyBook

C9_ConfidenceFilter ==
    /\ pc \in {"get_current_price", "get_balance"} \cup OrderPcs
          => all_signals[sig_i].confidence >= MinConfidence
    /\ \A i \in 1..Len(attempts) : attempts[i].confidence >= MinConfidence
    /\ \A i \in 1..Len(discarded) : discarded[i].confidence < MinConfidence

\* a signal of confidence 29 was dropped and one of confidence 30 is at its order
C9_Witness ==
    /\ pc = "buy_order"
    /\ all_signals[sig_i].confidence = MinConfidence
    /\ \E i \in 1..Len(discarded) : discarded[i].confidence = MinConfidence - 1

\* C10: a cycle ends only after analyze_and_trade was called for every stock
\* of its list, in order, whatever failed on the way; and a step changes book
\* entries of the stock being analysed only.
C10_Isolation ==
    /\ [](pc = "idle" => analysed = cycle)
    /\ [][\A s \in Strategies, c \in Stocks :
              Entry(positions'[s], c) # Entry(positions[s], c) => c = cycle[idx]]_vars

\* a cycle over two stocks is over, a step failed for the first of them
C10_Witness ==
    /\ pc = "idle"
    /\ Len(cycle) = 2
    /\ cycle[1] # cycle[2]
    /\ failed = {cycle[1]}
    /\ analysed = cycle
    /\ \E s \in Strategies : cycle[2] \in DOMAIN positions[s]

\* ------------------------------------------------------------ signal claims
HasAction(list, action) == \E i \in 1..Len(list) : list[i].action = action

\* generate_signals of strategy s has returned
Answered(s) == returned.strategy = s /\ ~returned.raised

Held(s) == returned.stock_code \in DOMAIN positions[s]

\* C11: the squeeze strategy emits a BUY exactly when the previous bar's
\* squeeze state is on, the current bar's is off, the current momentum is
\* above min_momentum and above the previous momentum, and the current volume
\* is above the average volume times volume_threshold; with a single bar
\* there is no previous state that is on.
C11_SqueezeBuyIff ==
    Answered("squeeze_momentum") =>
        LET d == analysis.squeeze_data
            n == Len(d.momentum)
        IN  HasAction(returned.list, "BUY") <=>
                /\ n > 1
                /\ d.squeeze_on[n - 1]
                /\ d.squeeze_off[n]
                /\ FGt(d.momentum[n], FromRat(SqueezeParams.min_momentum))
                /\ FGt(d.momentum[n], d.momentum[n - 1])
                /\ FGt(analysis.current_volume,
                       FTimes(analysis.volume_analysis.avg_volume[n],
                              SqueezeParams.volume_threshold[1],
                              SqueezeParams.volume_threshold[2]))

\* a BUY of the squeeze strategy, its momentum one unit above min_momentum
C11_Witness ==
    /\ Answered("squeeze_momentum")
    /\ HasAction(returned.list, "BUY")
    /\ analysis.squeeze_data.momentum[2] = Num(Scale \div 2 + 1)
    /\ analysis.current_volume = Num(151 * Scale)

\* C12: the squeeze strategy emits a SELL exactly when it holds the stock and
\* the momentum goes from positive on the previous bar to zero or less on the
\* current bar.
C12_SqueezeSellIff ==
    Answered("squeeze_momentum") =>
        LET d == analysis.squeeze_data
            n == Len(d.momentum)
        IN  HasAction(returned.list, "SELL") <=>
                /\ Held("squeeze_momentum")
                /\ n > 1
                /\ FGt(d.momentum[n - 1], Num(0))
                /\ FLe(d.momentum[n], Num(0))

\* C13: the MACD strategy emits a BUY exactly when the histogram goes from
\* zero or less on the previous bar (0 when there is none) to above zero and
\* above min_histogram on the current bar while the RSI is below 50; in every
\* such case the MACD line is above the signal line.
C13_MACDBuyIff ==
    Answered("macd") =>
        LET m == analysis.macd_data
            n == Len(m.histogram)
            prev == IF n > 1 THEN m.histogram[n - 1] ELSE Num(0)
            crossing == /\ FLe(prev, Num(0))
                        /\ FGt(m.histogram[n], Num(0))
                        /\ FGt(m.histogram[n], FromRat(MACDParams.min_histogram))
                        /\ FLt(analysis.rsi[n], Num(50 * Scale))
        IN  /\ HasAction(returned.list, "BUY") <=> crossing
            /\ crossing => FGt(m.macd[n], m.signal[n])

\* a BUY of the MACD strategy with the RSI one unit below 50
C13_Witness ==
    /\ Answered("macd")
    /\ HasAction(returned.list, "BUY")
    /\ analysis.rsi[Len(analysis.rsi)] = Num(50 * Scale - 1)

\* C14: the MACD strategy emits a SELL exactly when the histogram goes from
\* zero or more on the previous bar (0 when there is none) to below zero on
\* the current bar while the RSI is above 50 and the strategy holds the
\* stock; it never emits a BUY and a SELL for one bar.
C14_MACDSellIff ==
    Answered("macd") =>
        LET m == analysis.macd_data
            n == Len(m.histogram)
            prev == IF n > 1 THEN m.histogram[n - 1] ELSE Num(0)
        IN  /\ HasAction(returned.list, "SELL") <=>
                  /\ FGe(prev, Num(0))
                  /\ FLt(m.histogram[n], Num(0))
                  /\ FGt(analysis.rsi[n], Num(50 * Scale))
                  /\ Held("macd")
            /\ ~(HasAction(returned.list, "BUY") /\ HasAction(returned.list, "SELL"))

\* a SELL of the MACD strategy for the stock it holds
C14_Witness ==
    /\ Answered("macd")
    /\ HasAction(returned.list, "SELL")
    /\ Held("macd")
    /\ analysis.rsi[Len(analysis.rsi)] = Num(50 * Scale + 1)

\* C15: the confidence of every emitted signal is at least 0 and at most 100.
C15_ConfidenceRange ==
    \A i \in 1..Len(returned.list) :
        /\ FGe(returned.list[i].confidence, Num(0))
        /\ FLe(returned.list[i].confidence, Num(100 * Scale))

\* a squeeze BUY of momentum 11: ten times the momentum is 110, the confidence 100
C15_Witness ==
    /\ Answered("squeeze_momentum")
    /\ HasAction(returned.list, "BUY")
    /\ analysis.squeeze_data.momentum[2] = Num(11 * Scale)
    /\ returned.list[1].confidence = Num(100 * Scale)

\* --------------------------------------------------------- indicator claims
BandsDefined(d, i) ==
    IsNum(d.bb_lower[i]) /\ IsNum(d.bb_upper[i]) /\ IsNum(d.kc_lower[i]) /\ IsNum(d.kc_upper[i])

TrueCount(flags) == Cardinality({j \in 1..Len(flags) : flags[j]})

\* C16: for every bar whose four band values are defined exactly one of
\* squeeze_on, squeeze_off, no_squeeze is true, and squeeze_on and squeeze_off
\* are never both true.
C16_SqueezeStateExclusive ==
    analysis.strategy = "squeeze_momentum" =>
        LET d == analysis.squeeze_data
        IN  \A i \in 1..Len(d.momentum) :
                /\ ~(d.squeeze_on[i] /\ d.squeeze_off[i])
                /\ BandsDefined(d, i) =>
                      TrueCount(<<d.squeeze_on[i], d.squeeze_off[i], d.no_squeeze[i]>>) = 1

\* a chart whose last bar is off on the lower side only, after bars without bands
C16_Witness ==
    /\ analysis.strategy = "squeeze_momentum"
    /\ LET d == analysis.squeeze_data
           n == Len(d.momentum)
       IN  /\ n >= SqueezeDefaults.bb_length
           /\ BandsDefined(d, n)
           /\ ~BandsDefined(d, 1)
           /\ d.squeeze_off[n]
           /\ FLt(d.bb_lower[n], d.kc_lower[n])
           /\ FLt(d.bb_upper[n], d.kc_upper[n])

\* C17: on a chart shorter than every indicator window, the empty chart
\* included, analyze followed by generate_signals raises nothing and returns
\* an empty list.
C17_ShortSeriesNoSignal ==
    (returned.strategy # "none" /\ Len(df) < SqueezeDefaults.mom_length) =>
        ~returned.raised /\ returned.list = <<>>

IsFlat(frame) ==
    \A i \in 1..Len(frame) :
        /\ frame[i].stck_clpr = frame[1].stck_clpr
        /\ frame[i].stck_hgpr = frame[1].stck_clpr
        /\ frame[i].stck_lwpr = frame[1].stck_clpr

\* C18: on a chart of equal closes, highs and lows that is at least as long
\* as the longest window, the MACD histogram is 0 at every bar, the RSI is
\* evaluated without an error, and neither strategy emits a signal, with or
\* without a position.
C18_FlatNoSignal ==
    (IsFlat(df) /\ Len(df) >= MacdDefaults.slow) =>
        /\ analysis.strategy = "macd" =>
              /\ \A i \in 1..Len(df) : analysis.macd_data.histogram[i] = Num(0)
              /\ Len(analysis.rsi) = Len(df)
        /\ returned.strategy # "none" => ~returned.raised /\ returned.list = <<>>

\* the squeeze strategy answered for a held stock on a flat chart of full length
C18_Witness ==
    /\ IsFlat(df)
    /\ Len(df) >= MacdDefaults.slow
    /\ Answered("squeeze_momentum")
    /\ Held("squeeze_momentum")
    /\ analysis.squeeze_data.momentum[Len(df)] = Num(0)

IsRisingByOne(frame) ==
    \A i \in 2..Len(frame) : frame[i].stck_clpr = frame[i - 1].stck_clpr + 1

\* the prefixes of a chart on which the MACD strategy emits a BUY
BuyBars(book, stock_code, frame) ==
    {n \in 1..Len(frame) :
        HasAction(MACDGenerateSignals(book, stock_code, MACDAnalyze(SubSeq(frame, 1, n))),
                  "BUY")}

\* C19: on a chart of 30 closes that rise by 1 per bar the RSI reaches 100,
\* the MACD histogram becomes positive, and the MACD strategy, evaluated on
\* every prefix of the chart, emits exactly one BUY, of confidence above 0.
C19_RisingOneBuy ==
    (IsRisingByOne(df) /\ Len(df) = 30 /\ Answered("macd")) =>
        /\ \E i \in 1..Len(df) : analysis.rsi[i] = Num(100 * Scale)
        /\ \E i \in 1..Len(df) : FGt(analysis.macd_data.histogram[i], Num(0))
        /\ Cardinality(BuyBars(positions["macd"], returned.stock_code, df)) = 1

\* C20: at every index past the warm-up the RSI is a number within [0, 100],
\* and it is 100 wherever the average loss is 0, flat closes included.
C20_RsiDefined ==
    analysis.strategy = "macd" =>
        LET avg_loss == wilder_average(rsi_loss(ToNumeric(df, "stck_clpr")), RsiDefaults.period)
        IN  \A i \in (RsiDefaults.period + 1)..Len(df) :
                /\ IsNum(analysis.rsi[i])
                /\ FGe(analysis.rsi[i], Num(0))
                /\ FLe(analysis.rsi[i], Num(100 * Scale))
                /\ avg_loss[i] = Num(0) => analysis.rsi[i] = Num(100 * Scale)

\* every close of the chart is the same
SameCloses(frame) == \A i \in 1..Len(frame) : frame[i].stck_clpr = frame[1].stck_clpr

\* C21: on a chart whose closes are all equal calculate_volume_profile takes
\* the fallback, an empty volume profile and the last close as point of
\* control; on a chart without rows it returns the fallback with point of
\* control 0.
C21_VolumeProfileFallback ==
    /\ (analysis.strategy # "none" /\ SameCloses(df)) =>
          /\ analysis.volume_analysis.volume_profile = <<>>
          /\ analysis.volume_analysis.poc = analysis.current_price
    /\ Len(df) = 0 =>
          LET fallback == calculate_volume_profile(ToNumeric(df, "stck_clpr"),
                                                   ToNumeric(df, "acml_vol"),
                                                   VolumeProfileDefaults.bins)
          IN  fallback.volume_profile = <<>> /\ fallback.poc = Num(0)

\* exactly one Bollinger bound lies strictly outside the Keltner channel, the
\* other strictly inside
Straddles(d, i) ==
    \/ FLt(d.bb_lower[i], d.kc_lower[i]) /\ FLt(d.bb_upper[i], d.kc_upper[i])
    \/ FGt(d.bb_lower[i], d.kc_lower[i]) /\ FGt(d.bb_upper[i], d.kc_upper[i])

\* C23: a bar is squeeze_off only when the Bollinger band lies strictly
\* outside the Keltner channel on both sides, and a bar whose band straddles
\* the channel is no_squeeze, not squeeze_off.
C23_OffOnlyBothSides ==
    analysis.strategy = "squeeze_momentum" =>
        LET d == analysis.squeeze_data
        IN  \A i \in 1..Len(d.momentum) :
                /\ d.squeeze_off[i] =>
                      FLt(d.bb_lower[i], d.kc_lower[i]) /\ FGt(d.bb_upper[i], d.kc_upper[i])
                /\ Straddles(d, i) => d.no_squeeze[i] /\ ~d.squeeze_off[i]

\* the population standard deviation of a window: the divisor is its length
PopulationStd(xs) ==
    LET n == Len(xs)
        mean == FTimes(FSum(xs), 1, n)
        sq == [j \in 1..n |-> FMul(FSub(xs[j], mean), FSub(xs[j], mean))]
    IN  FSqrt(FTimes(FSum(sq), 1, n))

\* C24: at every index from period - 1 on, the Bollinger bands are the simple
\* moving average plus and minus std_dev times the population standard
\* deviation (divisor period) of the trailing period closes; before that
\* index upper, middle and lower are undefined.
C24_BollingerPopulationStd ==
    analysis.strategy = "squeeze_momentum" =>
        LET close == ToNumeric(df, "stck_clpr")
            period == SqueezeDefaults.bb_length
            std_dev == BollingerDefaults.std_dev
            sma == calculate_sma(close, period)
            d == analysis.squeeze_data
        IN  \A i \in 1..Len(df) :
                IF i < period
                THEN /\ IsNaN(d.bb_upper[i])
                     /\ IsNaN(d.bb_lower[i])
                     /\ IsNaN(calculate_bollinger_bands(close, period, std_dev).middle[i])
                ELSE LET width == FTimes(PopulationStd(Window(close, i, period)), std_dev, 1)
                     IN  /\ d.bb_upper[i] = FAdd(sma[i], width)
                         /\ d.bb_lower[i] = FSub(sma[i], width)

\* Wilder's average seeded with the simple mean of the values at indices
\* 1..period (the 0-based indices of the code; the model's 2..period + 1),
\* undefined before, and the recursion at every later index
RECURSIVE SeededAverage(_, _)
SeededAverage(series, period) ==
    LET n == Len(series)
    IN  IF n <= period THEN [i \in 1..n |-> NaN]
        ELSE LET before == SeededAverage(SubSeq(series, 1, n - 1), period)
             IN  IF n = period + 1
                 THEN Append(before, FTimes(FSum(SubSeq(series, 2, n)), 1, period))
                 ELSE Append(before,
                             FTimes(FAdd(FTimes(before[n - 1], period - 1, 1), series[n]),
                                    1, period))

\* C25: the average gain and the average loss of calculate_rsi are seeded
\* with the simple mean of the deltas at indices 1..period, the undefined
\* delta at index 0 not counted, and every later index applies Wilder's
\* recursion once; the RSI returned is the one of these averages.
C25_RsiSeed ==
    analysis.strategy = "macd" =>
        LET close == ToNumeric(df, "stck_clpr")
            period == RsiDefaults.period
            avg_gain == SeededAverage(rsi_gain(close), period)
            avg_loss == SeededAverage(rsi_loss(close), period)
        IN  /\ wilder_average(rsi_gain(close), period) = avg_gain
            /\ wilder_average(rsi_loss(close), period) = avg_loss
            /\ \A i \in 1..Len(df) : analysis.rsi[i] = rsi_value(avg_gain[i], avg_loss[i])

\* ---------------------------------------------------------- account claims
Max(a, b) == IF a > b THEN a ELSE b

\* the total cost quantity * avg_price of a book entry, as a fraction
CostOf(book, stock_code) ==
    IF stock_code \in DOMAIN book
    THEN Frac(book[stock_code].quantity * book[stock_code].avg_price.n,
              book[stock_code].avg_price.d)
    ELSE Frac(0, 1)

BookTotal(stock_code) ==
    HeldQty(positions[StrategyOrder[1]], stock_code)
        + HeldQty(positions[StrategyOrder[2]], stock_code)

C30_TradingTimeAndCycle ==
    /\ ~is_trading_time
    /\ [][/\ (is_trading_time' /\ ~is_trading_time) => PrepareTradingDay(TRUE)
          /\ (~is_trading_time' /\ is_trading_time) => EndTradingDay
          /\ (pc = "idle" /\ (~is_trading_time \/ target_stocks = <<>>)) =>
                /\ pc' = "idle"
                /\ analysed' \in {analysed, <<>>}
                /\ attempts' = attempts
                /\ positions' = positions
          /\ (pc = "idle" /\ pc' # "idle") =>
                /\ Len(cycle') = Min(Len(target_stocks), TargetLimit)
                /\ cycle' = SubSeq(target_stocks, 1, Len(cycle'))
                /\ analysed' = <<cycle'[1]>>]_vars
    /\ [](/\ Len(cycle) <= TargetLimit
          /\ Len(analysed) <= Len(cycle)
          /\ analysed = SubSeq(cycle, 1, Len(analysed))
          /\ pc # "idle" => idx = Len(analysed))

\* a cycle over a target list of more than 20 entries is over: 20 of them
\* were analysed, and an order of the cycle was confirmed
C30_Witness ==
    /\ pc = "idle"
    /\ Len(target_stocks) > TargetLimit
    /\ Len(cycle) = TargetLimit
    /\ analysed = cycle
    /\ filled >= 1

====
